---- MODULE Spec2Model ----
(***************************************************************************)
(* The presale bot of src/presale_bot.py: run(), the monitoring loop       *)
(* monitor_presale_conditions() and execute_buy_transaction(), with the    *)
(* pure helpers of src/gas_optimizer.py and src/contracts.py, against a    *)
(* node whose answers are drawn nondeterministically.                      *)
(*                                                                         *)
(* Numbers.  Wei amounts are integers.  Amounts in ether (the float        *)
(* TOKEN_AMOUNT, the Decimal returned by from_wei) are fixed-point         *)
(* integers counting 1/Frac, so that to_wei and from_wei are the real      *)
(* conversions (a multiplication or a division by WeiPerEther) and not     *)
(* the identity.  WeiPerEther stands for 10^18.                            *)
(***************************************************************************)
EXTENDS Integers, Sequences, FiniteSets, TLC

(* ------------------------------ bounds -------------------------------- *)
WeiPerEther == 10
MaxTime == 120
TickStep == 30
PresaleStart == 65
PresaleEnd == 100
HardCap == 2
NonceSpace == 2
MaxMined == 2
MaxAttempts == 5

(* ------------------------ program constants --------------------------- *)
DEFAULT_MAX_GAS_PRICE == 100000000
DEFAULT_GAS_LIMIT == 500000
DEFAULT_PRIORITY_FEE == 1000000000
DEFAULT_MAX_RETRIES == 3
DEFAULT_RETRY_DELAY == 2
DEFAULT_MONITOR_INTERVAL == 5
PREPARE_WINDOW == 60
START_POLL_CAP == 10
GAS_WAIT == 5
NO_ALLOCATION_WAIT == 10
ERROR_WAIT == 10

(* ------------------------------ numbers ------------------------------- *)
Frac == WeiPerEther * WeiPerEther * WeiPerEther

Min(a, b) == IF a <= b THEN a ELSE b

\* An integer as a fixed-point number.
Num(i) == i * Frac

\* The ether amount (fixed point) that is worth w wei.
EtherOfWei(w) == w * WeiPerEther * WeiPerEther

\* web3.to_wei(number, 'ether'): number * 10^18, truncated to an integer.
to_wei(number) == (number * WeiPerEther) \div Frac

\* web3.from_wei(number, 'ether'): number / 10^18, a Decimal.
from_wei(number) == number \div WeiPerEther

\* Python's None (and the False returned in place of a value) is the empty
\* tuple; a value x that may be None is held as << x >>.
None == << >>
Some(x) == << x >>
Val(v) == v[1]

(* --------------------------- configuration ---------------------------- *)
\* Config of src/config.py with the defaults of its os.getenv calls.
\* TOKEN_AMOUNT is an amount in ether: the default 0.1.
DefaultConfig ==
    [ TOKEN_AMOUNT     |-> EtherOfWei(WeiPerEther \div 10),
      MAX_GAS_PRICE    |-> DEFAULT_MAX_GAS_PRICE,
      GAS_LIMIT        |-> DEFAULT_GAS_LIMIT,
      PRIORITY_FEE     |-> DEFAULT_PRIORITY_FEE,
      MAX_RETRIES      |-> DEFAULT_MAX_RETRIES,
      RETRY_DELAY      |-> DEFAULT_RETRY_DELAY,
      MONITOR_INTERVAL |-> DEFAULT_MONITOR_INTERVAL ]

\* The environments the bot is started in: the defaults, one with 2.5 ether
\* to invest and a fee cap above the priority fee, and one investing nothing.
Configs ==
    { DefaultConfig,
      [DefaultConfig EXCEPT !.TOKEN_AMOUNT = EtherOfWei((5 * WeiPerEther) \div 2),
                            !.MAX_GAS_PRICE = 1500000000],
      [DefaultConfig EXCEPT !.TOKEN_AMOUNT = 0] }

\* What the node may answer.
GasPrices == {100000000, 2000000000}
BaseFees == {10000000, 600000000}
EstimatedGas == {21001, 100000}

(* ------------------- src/gas_optimizer.py, pure parts ------------------ *)
\* get_current_gas_price: the node's price, MAX_GAS_PRICE when the call fails.
get_current_gas_price(cfg, ok, gas_price) ==
    IF ok THEN gas_price ELSE cfg.MAX_GAS_PRICE

\* Mutant: the comparison of is_gas_acceptable turned round.
is_gas_acceptable_inverted(cfg, gas_price) == gas_price >= cfg.MAX_GAS_PRICE

\* Mutant: a gas price equal to MAX_GAS_PRICE is refused.
is_gas_acceptable_strict(cfg, gas_price) == gas_price < cfg.MAX_GAS_PRICE

is_gas_acceptable(cfg, gas_price) == gas_price <= cfg.MAX_GAS_PRICE

\* Mutant: get_arbitrum_gas_estimate without the cap on base fee + priority fee.
get_arbitrum_gas_estimate_uncapped(cfg, block_ok, base_fee) ==
    IF block_ok
    THEN [ maxFeePerGas |-> base_fee + cfg.PRIORITY_FEE,
           maxPriorityFeePerGas |-> cfg.PRIORITY_FEE ]
    ELSE [ maxFeePerGas |-> cfg.MAX_GAS_PRICE,
           maxPriorityFeePerGas |-> cfg.PRIORITY_FEE ]

\* get_arbitrum_gas_estimate: block_ok says whether the latest block was read.
get_arbitrum_gas_estimate(cfg, block_ok, base_fee) ==
    IF block_ok
    THEN [ maxFeePerGas |-> Min(base_fee + cfg.PRIORITY_FEE, cfg.MAX_GAS_PRICE),
           maxPriorityFeePerGas |-> cfg.PRIORITY_FEE ]
    ELSE [ maxFeePerGas |-> cfg.MAX_GAS_PRICE,
           maxPriorityFeePerGas |-> cfg.PRIORITY_FEE ]

\* Mutant: the estimate is used as the gas limit, without the 20% buffer.
optimize_gas_for_transaction_unbuffered(cfg, estimate_ok, estimated_gas, block_ok, base_fee) ==
    IF estimate_ok
    THEN LET gas_params == get_arbitrum_gas_estimate(cfg, block_ok, base_fee)
         IN  [ gas |-> estimated_gas,
               maxFeePerGas |-> gas_params.maxFeePerGas,
               maxPriorityFeePerGas |-> gas_params.maxPriorityFeePerGas ]
    ELSE [ gas |-> cfg.GAS_LIMIT,
           maxFeePerGas |-> cfg.MAX_GAS_PRICE,
           maxPriorityFeePerGas |-> cfg.PRIORITY_FEE ]

\* optimize_gas_for_transaction: estimate_ok says whether estimate_gas answered.
\* int(estimated_gas * 1.2) is (estimated_gas * 12) \div 10.
optimize_gas_for_transaction(cfg, estimate_ok, estimated_gas, block_ok, base_fee) ==
    IF estimate_ok
    THEN LET gas_params == get_arbitrum_gas_estimate(cfg, block_ok, base_fee)
         IN  [ gas |-> (estimated_gas * 12) \div 10,
               maxFeePerGas |-> gas_params.maxFeePerGas,
               maxPriorityFeePerGas |-> gas_params.maxPriorityFeePerGas ]
    ELSE [ gas |-> cfg.GAS_LIMIT,
           maxFeePerGas |-> cfg.MAX_GAS_PRICE,
           maxPriorityFeePerGas |-> cfg.PRIORITY_FEE ]

(* --------------------- src/contracts.py, pure parts -------------------- *)
\* build_buy_transaction: the dictionary handed to build_transaction.
build_buy_transaction(eth_amount, gas_price, gas_limit, nonce) ==
    [ value    |-> to_wei(eth_amount),
      gas      |-> gas_limit,
      gasPrice |-> gas_price,
      nonce    |-> nonce ]

\* dict.update: the keys of params replace or extend those of transaction.
dict_update(transaction, params) == params @@ transaction

(* --------------------- src/presale_bot.py, pure parts ------------------ *)
\* The checks of validate_presale_contract on a presale_info that was read.
\* "ok" or the reason of the failure.
validation_result(info, current_time) ==
    IF ~info.is_active THEN "not_active"
    ELSE IF current_time > info.presale_end THEN "ended"
    ELSE IF info.total_raised >= info.hard_cap THEN "hard_cap"
    ELSE "ok"

\* calculate_optimal_buy_amount: TOKEN_AMOUNT is a number of ether, and
\* to_wei(remaining, 'ether') is remaining (wei) times 10^18; the two are
\* compared as plain numbers and the smaller one is divided by 10^18.
calculate_optimal_buy_amount(cfg, info) ==
    LET remaining == info.hard_cap - info.total_raised
        max_buy == Min(cfg.TOKEN_AMOUNT, Num(to_wei(Num(remaining))))
    IN  IF max_buy <= 0 THEN 0 ELSE from_wei(max_buy)

(* ------------------------------- state --------------------------------- *)
VARIABLES
    config,               \* self.config, fixed at construction
    now,                  \* the clock, time.time()
    chain,                \* the wallet's transactions on the node
    pc,                   \* where run() stands
    is_running,           \* self.is_running
    last_transaction,     \* self.last_transaction
    transaction_history,  \* self.transaction_history
    run_result,           \* what run() returned
    presale_info,         \* monitor: presale_info of this iteration
    validate_time,        \* validate_presale_contract: current_time
    current_time,         \* monitor: current_time
    buy_amount,           \* monitor: buy_amount
    current_gas,          \* monitor: current_gas
    success,              \* monitor: success
    transaction,          \* execute_buy_transaction: transaction
    receipt,              \* execute_buy_transaction: receipt
    sleep_for,            \* the argument of the asyncio.sleep in progress
    outbox,               \* the notification being awaited
    scheduled,            \* notifications handed to asyncio.create_task, not yet run
    attempts,             \* calls of execute_buy_transaction in this run
    startup_presale_info, \* validate_presale_contract, called by run(): presale_info
    cancelled             \* the tasks asyncio.run cancelled when run() was over

vars == << config, now, chain, pc, is_running, last_transaction,
           transaction_history, run_result, presale_info, validate_time,
           current_time, buy_amount, current_gas, success, transaction,
           receipt, sleep_for, outbox, scheduled, attempts,
           startup_presale_info, cancelled >>

Init ==
    /\ config \in Configs
    /\ now = 0
    /\ chain = [ tx_count |-> 0, pending |-> "none", receipt |-> None, mined_ok |-> 0 ]
    /\ pc = "init"
    /\ is_running = FALSE
    /\ last_transaction = None
    /\ transaction_history = << >>
    /\ run_result = None
    /\ presale_info = None
    /\ validate_time = None
    /\ current_time = None
    /\ buy_amount = None
    /\ current_gas = None
    /\ success = None
    /\ transaction = None
    /\ receipt = None
    /\ sleep_for = None
    /\ outbox = None
    /\ scheduled = {}
    /\ attempts = 0
    /\ startup_presale_info = None
    /\ cancelled = {}

(* --------------------------- the environment --------------------------- *)
\* What get_presale_info may read from the contract.
PresaleInfos ==
    [ presale_start : {PresaleStart},
      presale_end   : {PresaleEnd},
      hard_cap      : {HardCap},
      total_raised  : 0..HardCap,
      is_active     : BOOLEAN ]

\* Where run() is suspended in an await.
Suspended ==
    { "startup_notified", "status_notified", "start_notified", "gas_warned",
      "error_notified", "attempt_notified", "success_notified",
      "failure_notified", "sleep_extra", "sleep" }

Notification(kind, detail) == [ kind |-> kind, detail |-> detail ]

botState == << is_running, last_transaction, transaction_history, run_result >>
monitorLocals == << presale_info, validate_time, current_time, buy_amount,
                    current_gas, success >>
executeLocals == << transaction, receipt >>
mainLocals == << startup_presale_info, cancelled >>

\* The clock advances.
Tick ==
    /\ now + TickStep <= MaxTime
    /\ now' = now + TickStep
    /\ UNCHANGED << config, mainLocals, chain, pc, botState, monitorLocals, executeLocals,
                    sleep_for, outbox, scheduled, attempts >>

\* The node includes the wallet's pending transaction in a block, with
\* status 1 or, reverted, with status 0.  The wallet's transaction count
\* grows; it is kept modulo NonceSpace, only its equality with a nonce
\* being tested.
Mine ==
    /\ chain.pending # "none"
    /\ \E status \in {0, 1} :
          chain' = [ tx_count |-> (chain.tx_count + 1) % NonceSpace,
                     pending  |-> "none",
                     receipt  |-> IF chain.pending = "awaited"
                                  THEN Some(status) ELSE chain.receipt,
                     mined_ok |-> Min(chain.mined_ok + status, MaxMined) ]
    /\ UNCHANGED << config, mainLocals, now, pc, botState, monitorLocals, executeLocals,
                    sleep_for, outbox, scheduled, attempts >>

\* stop(), called while run() is suspended.
Stop ==
    /\ pc \in Suspended
    /\ is_running' = FALSE
    /\ scheduled' = scheduled \cup {"shutdown"}
    /\ UNCHANGED << config, mainLocals, now, chain, pc, last_transaction,
                    transaction_history, run_result, monitorLocals,
                    executeLocals, sleep_for, outbox, attempts >>

\* The event loop runs a task made by asyncio.create_task to its end, the
\* message is sent.  It does so only while run() is suspended in an await:
\* the checks that make the tasks are plain calls, without an await up to
\* the return of run().  The model follows a task until run() next resumes.
Deliver ==
    /\ pc \in Suspended
    /\ \E task \in scheduled : scheduled' = scheduled \ {task}
    /\ UNCHANGED << config, mainLocals, now, chain, pc, botState, monitorLocals,
                    executeLocals, sleep_for, outbox, attempts >>

(* -------------------------------- run() -------------------------------- *)
\* return from run(): the finally clause clears is_running.
Return(result) ==
    /\ run_result' = Some(result)
    /\ is_running' = FALSE
    /\ pc' = "returned"

\* run(): await send_startup_notification().
Run_Start ==
    /\ pc = "init"
    /\ outbox' = Some(Notification("startup", "run"))
    /\ pc' = "startup_notified"
    /\ UNCHANGED << config, mainLocals, now, chain, botState, monitorLocals, executeLocals,
                    sleep_for, scheduled, attempts >>

\* check_network_connection().
Run_CheckNetwork ==
    /\ pc = "startup_notified"
    /\ outbox' = None
    /\ \E connected \in BOOLEAN :
          IF connected
          THEN /\ pc' = "check_balance"
               /\ scheduled' = {}
               /\ UNCHANGED botState
          ELSE /\ scheduled' = {"error"}
               /\ Return(FALSE)
               /\ UNCHANGED << last_transaction, transaction_history >>
    /\ UNCHANGED << config, mainLocals, now, chain, monitorLocals, executeLocals,
                    sleep_for, attempts >>

\* check_wallet_balance(): enough, too little, or the balance cannot be read.
BalanceOutcomes == { "enough", "insufficient", "error" }

balance_task(outcome) ==
    IF outcome = "insufficient" THEN {"balance_warning"}
    ELSE IF outcome = "error" THEN {"error"}
    ELSE {}

\* Mutant: run() goes on to the validation whatever check_wallet_balance
\* returned.
Run_CheckBalance_ignored ==
    /\ pc = "check_balance"
    /\ \E outcome \in BalanceOutcomes :
          scheduled' = scheduled \cup balance_task(outcome)
    /\ pc' = "validate"
    /\ UNCHANGED << config, mainLocals, now, chain, botState, monitorLocals,
                    executeLocals, sleep_for, outbox, attempts >>

Run_CheckBalance ==
    /\ pc = "check_balance"
    /\ \E outcome \in BalanceOutcomes :
          /\ scheduled' = scheduled \cup balance_task(outcome)
          /\ IF outcome = "enough"
             THEN pc' = "validate" /\ UNCHANGED botState
             ELSE Return(FALSE) /\ UNCHANGED << last_transaction, transaction_history >>
    /\ UNCHANGED << config, mainLocals, now, chain, monitorLocals, executeLocals,
                    sleep_for, outbox, attempts >>

\* validate_presale_contract(): "ok", or why it returned False.
validate_presale_contract(rpc_ok, info, time) ==
    IF rpc_ok THEN validation_result(info, time) ELSE "rpc_error"

validation_task(result) ==
    IF result = "ok" THEN {}
    ELSE IF result = "ended" THEN {"presale_ended"}
    ELSE {"error"}

\* run(): the presale validation, then is_running and the status message.
\* startup_presale_info is what get_presale_info read for this validation,
\* None when the read raised.
Run_ValidatePresale ==
    /\ pc = "validate"
    /\ \E rpc_ok \in BOOLEAN, info \in PresaleInfos :
          LET result == validate_presale_contract(rpc_ok, info, now)
          IN  /\ scheduled' = scheduled \cup validation_task(result)
              /\ startup_presale_info' = IF rpc_ok THEN Some(info) ELSE None
              /\ IF result = "ok"
                 THEN /\ is_running' = TRUE
                      /\ outbox' = Some(Notification("bot_status", "run"))
                      /\ pc' = "status_notified"
                      /\ UNCHANGED run_result
                 ELSE /\ Return(FALSE)
                      /\ UNCHANGED outbox
    /\ UNCHANGED << config, cancelled, now, chain, last_transaction,
                    transaction_history, monitorLocals, executeLocals,
                    sleep_for, attempts >>

\* run(): await monitor_presale_conditions().
Run_Monitor ==
    /\ pc = "status_notified"
    /\ outbox' = None
    /\ scheduled' = {}
    /\ startup_presale_info' = None
    /\ pc' = "loop_head"
    /\ UNCHANGED << config, cancelled, now, chain, botState, monitorLocals,
                    executeLocals, sleep_for, attempts >>

\* run(): monitor_presale_conditions() returned: return True.
Run_Return ==
    /\ pc = "monitor_done"
    /\ Return(TRUE)
    /\ UNCHANGED << config, mainLocals, now, chain, last_transaction, transaction_history,
                    monitorLocals, executeLocals, sleep_for, outbox, scheduled,
                    attempts >>

\* asyncio.run(bot.run()) is over: a task that is still scheduled gets no
\* further than the first await of its HTTP request, where it is cancelled,
\* and the process ends.
Main_Exit ==
    /\ pc = "returned"
    /\ pc' = "exited"
    /\ cancelled' = scheduled
    /\ scheduled' = {}
    /\ UNCHANGED << config, startup_presale_info, now, chain, botState,
                    monitorLocals, executeLocals, sleep_for, outbox, attempts >>

(* --------------------- monitor_presale_conditions() -------------------- *)
\* while self.is_running, seen False: the loop ends.
Monitor_Exit ==
    /\ pc = "loop_head"
    /\ ~is_running
    /\ pc' = "monitor_done"
    /\ UNCHANGED << config, mainLocals, now, chain, botState, monitorLocals, executeLocals,
                    sleep_for, outbox, scheduled, attempts >>

\* Mutant: a failed validation breaks out of the loop instead of sleeping.
Monitor_Poll_breaks ==
    /\ pc = "loop_head"
    /\ is_running
    /\ \E rpc_ok \in BOOLEAN, info \in PresaleInfos :
          LET result == validate_presale_contract(rpc_ok, info, now)
          IN  /\ scheduled' = scheduled \cup validation_task(result)
              /\ validate_time' = IF rpc_ok /\ info.is_active THEN Some(now) ELSE None
              /\ IF result = "ok"
                 THEN /\ presale_info' = Some(info)
                      /\ pc' = "check_start"
                 ELSE /\ presale_info' = None
                      /\ pc' = "monitor_done"
    /\ UNCHANGED << config, mainLocals, now, chain, botState, current_time, buy_amount,
                    current_gas, success, executeLocals, sleep_for, outbox,
                    attempts >>

\* while self.is_running, seen True: presale_info = validate_presale_contract();
\* on False, await asyncio.sleep(MONITOR_INTERVAL) and continue.
Monitor_Poll ==
    /\ pc = "loop_head"
    /\ is_running
    /\ \E rpc_ok \in BOOLEAN, info \in PresaleInfos :
          LET result == validate_presale_contract(rpc_ok, info, now)
          IN  /\ scheduled' = scheduled \cup validation_task(result)
              /\ validate_time' = IF rpc_ok /\ info.is_active THEN Some(now) ELSE None
              /\ IF result = "ok"
                 THEN /\ presale_info' = Some(info)
                      /\ pc' = "check_start"
                      /\ UNCHANGED sleep_for
                 ELSE /\ presale_info' = None
                      /\ pc' = "sleep"
                      /\ sleep_for' = Some(config.MONITOR_INTERVAL)
    /\ UNCHANGED << config, mainLocals, now, chain, botState, current_time, buy_amount,
                    current_gas, success, executeLocals, outbox, attempts >>

\* time_until_start = presale_info['presale_start'] - current_time
time_until_start == Val(presale_info).presale_start - Val(current_time)

\* The presale has not started: prepare_for_presale() and the start message
\* in the last minute, then asyncio.sleep(min(time_until_start, 10)).
\* Otherwise on to the buy decision.
Monitor_CheckStart ==
    /\ pc = "check_start"
    /\ current_time' = Some(now)
    /\ LET until_start == Val(presale_info).presale_start - now
       IN  IF until_start > 0
           THEN IF until_start <= PREPARE_WINDOW
                THEN /\ \E outcome \in BalanceOutcomes :
                           scheduled' = scheduled \cup balance_task(outcome)
                     /\ outbox' = Some(Notification("presale_start", "monitor"))
                     /\ pc' = "start_notified"
                     /\ UNCHANGED sleep_for
                ELSE /\ pc' = "sleep"
                     /\ sleep_for' = Some(Min(until_start, START_POLL_CAP))
                     /\ UNCHANGED << outbox, scheduled >>
           ELSE /\ pc' = "decide"
                /\ UNCHANGED << sleep_for, outbox, scheduled >>
    /\ UNCHANGED << config, mainLocals, now, chain, botState, presale_info, validate_time,
                    buy_amount, current_gas, success, executeLocals, attempts >>

\* Mutant: the sleep before the start is always the 10 seconds of the cap.
Monitor_StartNotified_capped ==
    /\ pc = "start_notified"
    /\ outbox' = None
    /\ scheduled' = {}
    /\ pc' = "sleep"
    /\ sleep_for' = Some(START_POLL_CAP)
    /\ UNCHANGED << config, mainLocals, now, chain, botState, monitorLocals,
                    executeLocals, attempts >>

\* The start message was sent: asyncio.sleep(min(time_until_start, 10)).
Monitor_StartNotified ==
    /\ pc = "start_notified"
    /\ outbox' = None
    /\ scheduled' = {}
    /\ pc' = "sleep"
    /\ sleep_for' = Some(Min(time_until_start, START_POLL_CAP))
    /\ UNCHANGED << config, mainLocals, now, chain, botState, monitorLocals, executeLocals,
                    attempts >>

\* if presale_info['is_active']: the buy amount, then the gas price gate.
Monitor_Decide ==
    /\ pc = "decide"
    /\ IF Val(presale_info).is_active
       THEN LET amount == calculate_optimal_buy_amount(config, Val(presale_info))
            IN  /\ buy_amount' = Some(amount)
                /\ IF amount > 0
                   THEN \E ok \in BOOLEAN, gas_price \in GasPrices :
                          LET gas == get_current_gas_price(config, ok, gas_price)
                          IN  /\ current_gas' = Some(gas)
                              /\ IF is_gas_acceptable(config, gas)
                                 THEN /\ pc' = "execute"
                                      /\ UNCHANGED << outbox, sleep_for >>
                                 ELSE /\ outbox' = Some(Notification("gas_warning", "monitor"))
                                      /\ pc' = "gas_warned"
                                      /\ UNCHANGED sleep_for
                   ELSE /\ pc' = "sleep_extra"
                        /\ sleep_for' = Some(NO_ALLOCATION_WAIT)
                        /\ UNCHANGED << current_gas, outbox >>
       ELSE /\ pc' = "sleep"
            /\ sleep_for' = Some(config.MONITOR_INTERVAL)
            /\ UNCHANGED << buy_amount, current_gas, outbox >>
    /\ UNCHANGED << config, mainLocals, now, chain, botState, presale_info, validate_time,
                    current_time, success, executeLocals, scheduled, attempts >>

\* The gas warning was sent: asyncio.sleep(5).
Monitor_GasWarned ==
    /\ pc = "gas_warned"
    /\ outbox' = None
    /\ scheduled' = {}
    /\ pc' = "sleep_extra"
    /\ sleep_for' = Some(GAS_WAIT)
    /\ UNCHANGED << config, mainLocals, now, chain, botState, monitorLocals, executeLocals,
                    attempts >>

\* Mutant: after asyncio.sleep(5) or asyncio.sleep(10) the loop continues
\* without the sleep of MONITOR_INTERVAL.
Monitor_WakeExtra_continues ==
    /\ pc = "sleep_extra"
    /\ scheduled' = {}
    /\ pc' = "loop_head"
    /\ sleep_for' = None
    /\ presale_info' = None
    /\ validate_time' = None
    /\ current_time' = None
    /\ buy_amount' = None
    /\ current_gas' = None
    /\ success' = None
    /\ UNCHANGED << config, mainLocals, now, chain, botState, executeLocals,
                    outbox, attempts >>

\* The end of an iteration, after asyncio.sleep(5) or asyncio.sleep(10):
\* await asyncio.sleep(self.config.MONITOR_INTERVAL).
Monitor_WakeExtra ==
    /\ pc = "sleep_extra"
    /\ scheduled' = {}
    /\ pc' = "sleep"
    /\ sleep_for' = Some(config.MONITOR_INTERVAL)
    /\ UNCHANGED << config, mainLocals, now, chain, botState, monitorLocals, executeLocals,
                    outbox, attempts >>

\* The last sleep of an iteration is over: back to the loop head.  The
\* locals of the iteration are dead there, each being assigned before its
\* next use.
Monitor_Wake ==
    /\ pc = "sleep"
    /\ scheduled' = {}
    /\ pc' = "loop_head"
    /\ sleep_for' = None
    /\ presale_info' = None
    /\ validate_time' = None
    /\ current_time' = None
    /\ buy_amount' = None
    /\ current_gas' = None
    /\ success' = None
    /\ UNCHANGED << config, mainLocals, now, chain, botState, executeLocals, outbox, attempts >>

\* except Exception in the loop: an exception leaves an awaited notification
\* call of the try body; it is reported.
Monitor_Exception ==
    /\ pc \in { "start_notified", "gas_warned" }
    /\ outbox' = Some(Notification("error", "Monitoring loop"))
    /\ scheduled' = {}
    /\ pc' = "error_notified"
    /\ UNCHANGED << config, mainLocals, now, chain, botState, monitorLocals, executeLocals,
                    sleep_for, attempts >>

\* except Exception in the loop, after the report: asyncio.sleep(10).
Monitor_ErrorNotified ==
    /\ pc = "error_notified"
    /\ outbox' = None
    /\ scheduled' = {}
    /\ pc' = "sleep"
    /\ sleep_for' = Some(ERROR_WAIT)
    /\ UNCHANGED << config, mainLocals, now, chain, botState, monitorLocals, executeLocals,
                    attempts >>

\* Mutant: the break is taken whatever execute_buy_transaction returned.
Monitor_AfterBuy_breaks ==
    /\ pc = "after_buy"
    /\ pc' = "monitor_done"
    /\ transaction' = None
    /\ receipt' = None
    /\ UNCHANGED << config, mainLocals, now, chain, botState, monitorLocals, sleep_for,
                    outbox, scheduled, attempts >>

\* if success: break; otherwise the sleep that ends the iteration.
Monitor_AfterBuy ==
    /\ pc = "after_buy"
    /\ IF Val(success)
       THEN pc' = "monitor_done" /\ UNCHANGED sleep_for
       ELSE pc' = "sleep" /\ sleep_for' = Some(config.MONITOR_INTERVAL)
    /\ transaction' = None
    /\ receipt' = None
    /\ UNCHANGED << config, mainLocals, now, chain, botState, monitorLocals, outbox,
                    scheduled, attempts >>

(* ---------------------- execute_buy_transaction() ---------------------- *)
\* The else branch of the receipt check and the except clause: the failure
\* is reported with its reason.
Fail(reason) ==
    /\ outbox' = Some(Notification("buy_failure", reason))
    /\ pc' = "failure_notified"

\* The call: the gas price is read for the message, await
\* send_buy_attempt_notification().
Execute_Start ==
    /\ pc = "execute"
    /\ attempts' = Min(attempts + 1, MaxAttempts)
    /\ outbox' = Some(Notification("buy_attempt", "execute"))
    /\ pc' = "attempt_notified"
    /\ UNCHANGED << config, mainLocals, now, chain, botState, monitorLocals, executeLocals,
                    sleep_for, scheduled >>

\* PresaleContracts.build_buy_transaction(): the nonce is the wallet's
\* transaction count.
Execute_Build ==
    /\ pc = "attempt_notified"
    /\ scheduled' = {}
    /\ \E ok \in BOOLEAN :
          IF ok
          THEN /\ transaction' = Some(build_buy_transaction(Val(buy_amount),
                                        config.MAX_GAS_PRICE, config.GAS_LIMIT,
                                        chain.tx_count))
               /\ outbox' = None
               /\ pc' = "optimize"
          ELSE /\ Fail("build")
               /\ UNCHANGED transaction
    /\ UNCHANGED << config, mainLocals, now, chain, botState, monitorLocals, receipt,
                    sleep_for, attempts >>

\* gas_params = optimize_gas_for_transaction(transaction);
\* transaction.update(gas_params)
Execute_Optimize ==
    /\ pc = "optimize"
    /\ \E estimate_ok \in BOOLEAN, estimated_gas \in EstimatedGas,
          block_ok \in BOOLEAN, base_fee \in BaseFees :
          transaction' = Some(dict_update(Val(transaction),
                             optimize_gas_for_transaction(config, estimate_ok,
                                 estimated_gas, block_ok, base_fee)))
    /\ pc' = "sign"
    /\ UNCHANGED << config, mainLocals, now, chain, botState, monitorLocals, receipt,
                    sleep_for, outbox, scheduled, attempts >>

\* sign_transaction(): it signs or raises.
Execute_Sign ==
    /\ pc = "sign"
    /\ \E ok \in BOOLEAN :
          IF ok THEN pc' = "send" /\ UNCHANGED outbox ELSE Fail("sign")
    /\ UNCHANGED << config, mainLocals, now, chain, botState, monitorLocals, executeLocals,
                    sleep_for, scheduled, attempts >>

\* send_raw_transaction(): the node takes the transaction when its nonce is
\* the wallet's transaction count, in place of a pending one with that
\* nonce if there is one; or the call raises (always when the nonce is
\* behind the count).
Execute_Send ==
    /\ pc = "send"
    /\ \/ /\ Val(transaction).nonce = chain.tx_count
          /\ chain' = [chain EXCEPT !.pending = "awaited", !.receipt = None]
          /\ pc' = "wait_receipt"
          /\ UNCHANGED outbox
       \/ /\ Fail("send")
          /\ UNCHANGED chain
    /\ UNCHANGED << config, mainLocals, now, botState, monitorLocals, executeLocals,
                    sleep_for, scheduled, attempts >>

\* Mutant: any receipt counts as a success, its status is not looked at.
Execute_WaitReceipt_any_status ==
    /\ pc = "wait_receipt"
    /\ \/ /\ chain.receipt # None
          /\ receipt' = chain.receipt
          /\ chain' = [chain EXCEPT !.receipt = None]
          /\ pc' = "confirmed"
          /\ UNCHANGED outbox
       \/ /\ chain.pending = "awaited"
          /\ chain' = [chain EXCEPT !.pending = "abandoned"]
          /\ Fail("timeout")
          /\ UNCHANGED receipt
    /\ UNCHANGED << config, mainLocals, now, botState, monitorLocals, transaction,
                    sleep_for, scheduled, attempts >>

\* wait_for_transaction_receipt(timeout=300): the receipt of the mined
\* transaction, or TimeExhausted while it is pending, or an error of the
\* node; then the check of receipt.status.  A transaction that is no longer
\* awaited stays pending.
Execute_WaitReceipt ==
    /\ pc = "wait_receipt"
    /\ \/ /\ chain.receipt # None
          /\ receipt' = chain.receipt
          /\ chain' = [chain EXCEPT !.receipt = None]
          /\ IF Val(chain.receipt) = 1
             THEN pc' = "confirmed" /\ UNCHANGED outbox
             ELSE Fail("Transaction reverted")
       \/ /\ chain.pending = "awaited"
          /\ chain' = [chain EXCEPT !.pending = "abandoned"]
          /\ Fail("timeout")
          /\ UNCHANGED receipt
       \/ /\ chain' = [chain EXCEPT !.receipt = None,
                         !.pending = IF @ = "awaited" THEN "abandoned" ELSE @]
          /\ Fail("receipt_error")
          /\ UNCHANGED receipt
    /\ UNCHANGED << config, mainLocals, now, botState, monitorLocals, transaction,
                    sleep_for, scheduled, attempts >>

\* receipt.status == 1: calculate_tokens_for_eth() answers or raises (both
\* contract calls fail, or the token price is 0), then await
\* send_buy_success_notification().
Execute_Confirmed ==
    /\ pc = "confirmed"
    /\ \E ok \in BOOLEAN :
          IF ok
          THEN /\ outbox' = Some(Notification("buy_success", "execute"))
               /\ pc' = "success_notified"
          ELSE Fail("Failed to calculate tokens")
    /\ UNCHANGED << config, mainLocals, now, chain, botState, monitorLocals, executeLocals,
                    sleep_for, scheduled, attempts >>

\* The success message was sent: the transaction is stored; return True.
Execute_Record ==
    /\ pc = "success_notified"
    /\ outbox' = None
    /\ scheduled' = {}
    /\ last_transaction' = Some([ eth_amount |-> Val(buy_amount),
                                  nonce |-> Val(transaction).nonce,
                                  status |-> Val(receipt) ])
    /\ transaction_history' = Append(transaction_history, Val(last_transaction'))
    /\ success' = Some(TRUE)
    /\ pc' = "after_buy"
    /\ UNCHANGED << config, mainLocals, now, chain, is_running, run_result, presale_info,
                    validate_time, current_time, buy_amount, current_gas,
                    executeLocals, sleep_for, attempts >>

\* The failure message was sent: return False.
Execute_Failed ==
    /\ pc = "failure_notified"
    /\ outbox' = None
    /\ scheduled' = {}
    /\ success' = Some(FALSE)
    /\ pc' = "after_buy"
    /\ UNCHANGED << config, mainLocals, now, chain, botState, presale_info, validate_time,
                    current_time, buy_amount, current_gas, executeLocals,
                    sleep_for, attempts >>

(* --------------------------- specifications ---------------------------- *)
\* The steps of run() and of what it calls.
BotStep ==
    \/ Run_Start \/ Run_CheckNetwork \/ Run_CheckBalance \/ Run_ValidatePresale
    \/ Run_Monitor \/ Run_Return \/ Main_Exit
    \/ Monitor_Exit \/ Monitor_Poll \/ Monitor_CheckStart \/ Monitor_StartNotified
    \/ Monitor_Decide \/ Monitor_GasWarned \/ Monitor_WakeExtra \/ Monitor_Wake
    \/ Monitor_ErrorNotified \/ Monitor_AfterBuy
    \/ Execute_Start \/ Execute_Build \/ Execute_Optimize \/ Execute_Sign
    \/ Execute_Send \/ Execute_WaitReceipt \/ Execute_Confirmed
    \/ Execute_Record \/ Execute_Failed

Next == BotStep \/ Monitor_Exception \/ Tick \/ Mine \/ Stop \/ Deliver

Spec == Init /\ [][Next]_vars

\* The event loop resumes run() whenever it can go on.
FairSpec == Spec /\ WF_vars(BotStep)

(* ------------------------------- claims -------------------------------- *)
\* Where run() stands inside monitor_presale_conditions().
LoopPcs ==
    { "loop_head", "check_start", "start_notified", "decide", "gas_warned",
      "sleep_extra", "sleep", "error_notified", "execute", "attempt_notified",
      "optimize", "sign", "send", "wait_receipt", "confirmed",
      "success_notified", "failure_notified", "after_buy" }

\* Where run() stands inside execute_buy_transaction().
ExecutePcs ==
    { "attempt_notified", "optimize", "sign", "send", "wait_receipt",
      "confirmed", "success_notified", "failure_notified" }

IsBuyFailure(box) == box # None /\ Val(box).kind = "buy_failure"

\* C1: execute_buy_transaction is called, and runs, only in an iteration
\* whose own poll showed the presale active, not ended at the time of the
\* poll and below its hard cap, whose second reading of the clock is not
\* before presale_start, whose buy amount is positive and whose gas price
\* reading is at most MAX_GAS_PRICE.
C1_BuyOnlyWhenConditionsMet ==
    pc \in ExecutePcs \cup {"execute"} =>
        /\ presale_info # None
        /\ Val(presale_info).is_active
        /\ validate_time # None
        /\ Val(validate_time) <= Val(presale_info).presale_end
        /\ Val(presale_info).total_raised < Val(presale_info).hard_cap
        /\ current_time # None
        /\ Val(current_time) >= Val(presale_info).presale_start
        /\ buy_amount # None
        /\ Val(buy_amount) > 0
        /\ current_gas # None
        /\ Val(current_gas) <= config.MAX_GAS_PRICE

\* C1 witness: the call is made on a gas price reading equal to the cap,
\* after the clock moved on between the poll and the start check.
C1_Witness ==
    /\ pc = "execute"
    /\ Val(current_gas) = config.MAX_GAS_PRICE
    /\ Val(validate_time) < Val(current_time)

\* Conditions the liveness claim C2 excludes: a startup check failed, the
\* loop was stopped (only stop() ends it without a purchase), a poll failed
\* validation, the presale has not started, the buy amount is 0, the gas
\* price is above the cap, an exception reached the loop's handler, or a
\* transaction could not be built, signed, sent or confirmed with status 1.
Unfavourable ==
    \/ pc \in {"returned", "exited"} /\ run_result = Some(FALSE)
    \/ pc \in LoopPcs /\ ~is_running
    \/ pc \in {"monitor_done", "returned", "exited"} /\ last_transaction = None
    \/ pc = "sleep" /\ presale_info = None
    \/ pc = "start_notified"
    \/ /\ presale_info # None
       /\ current_time # None
       /\ Val(current_time) < Val(presale_info).presale_start
    \/ buy_amount = Some(0)
    \/ current_gas # None /\ Val(current_gas) > config.MAX_GAS_PRICE
    \/ pc = "error_notified"
    \/ /\ IsBuyFailure(outbox)
       /\ Val(outbox).detail \in { "build", "sign", "send", "timeout",
                                   "receipt_error", "Transaction reverted" }

Purchased ==
    /\ pc \in {"returned", "exited"}
    /\ run_result = Some(TRUE)
    /\ last_transaction # None
    /\ Len(transaction_history) > 0

\* C2: if from some point on nothing unfavourable happens (the bot is
\* running and not stopped, every poll is good, the amount is positive, the
\* gas price is within the cap, transactions are built, signed, sent and
\* confirmed with status 1), the bot eventually records a purchase, the loop
\* ends and run() returns True.
C2_EventuallyPurchases == (<>[]~Unfavourable) => <>Purchased

\* C3: at most one purchase transaction of a run is mined with status 1.
C3_AtMostOneMined == chain.mined_ok <= 1

\* A step that leaves execute_buy_transaction() returns to the loop, with
\* True after the success message and False after the failure message.
ExecuteReturns ==
    (pc \in ExecutePcs /\ pc' \notin ExecutePcs)
        => /\ pc' = "after_buy"
           /\ \/ pc = "success_notified" /\ success' = Some(TRUE)
              \/ pc = "failure_notified" /\ success' = Some(FALSE)

\* After a buy that returned False the loop sleeps MONITOR_INTERVAL, still
\* running if it was.
FailedBuySleeps ==
    (pc = "after_buy" /\ success = Some(FALSE) /\ pc' # pc)
        => /\ pc' = "sleep"
           /\ sleep_for' = Some(config.MONITOR_INTERVAL)
           /\ is_running' = is_running

\* The sleep that ends an iteration leads to the loop head, and the loop
\* head, while running, to the next poll.
SleepLeadsToPoll ==
    /\ (pc = "sleep" /\ pc' # pc) => pc' = "loop_head"
    /\ (pc = "loop_head" /\ is_running /\ pc' # pc)
          => /\ pc' \in {"check_start", "sleep"}
             /\ presale_info' # None \/ sleep_for' = Some(config.MONITOR_INTERVAL)

\* C4: a failed buy attempt ends in the failure message and the return
\* value False, and the loop goes on: it sleeps MONITOR_INTERVAL, comes
\* back to the loop head and, still running, polls the contract again.
C4_FailedBuyKeepsLoopRunning ==
    /\ [](pc = "failure_notified" => IsBuyFailure(outbox))
    /\ [][ExecuteReturns]_vars
    /\ [][FailedBuySleeps]_vars
    /\ [][SleepLeadsToPoll]_vars

\* C4 witness: a second buy attempt is under way, so the first one failed
\* and the loop came back to it.
C4_Witness ==
    /\ pc = "attempt_notified"
    /\ attempts = 2
    /\ chain.mined_ok = 0

\* A step that leaves the loop follows a buy that returned True or a loop
\* head that saw is_running False.
LoopLeft ==
    (pc \in LoopPcs /\ pc' \notin LoopPcs)
        => /\ pc' = "monitor_done"
           /\ \/ pc = "after_buy" /\ success = Some(TRUE)
              \/ pc = "loop_head" /\ ~is_running

\* The exception handler of the loop sleeps 10 seconds.
HandlerSleeps ==
    (pc = "error_notified" /\ pc' # pc)
        => pc' = "sleep" /\ sleep_for' = Some(ERROR_WAIT)

\* C5: the loop is left only by the break after a successful buy or by
\* seeing is_running False at the loop head; an exception in an iteration
\* is reported and followed by a sleep of 10 seconds.
C5_LoopEndsOnlyOnSuccessOrStop ==
    /\ [][LoopLeft]_vars
    /\ [](pc = "error_notified"
             => outbox = Some(Notification("error", "Monitoring loop")))
    /\ [][HandlerSleeps]_vars

\* C5 witness: after a failed buy and, in a later iteration, a gas price
\* above the cap, an exception was handled and the loop sleeps 10 seconds.
C5_Witness ==
    /\ pc = "sleep"
    /\ sleep_for = Some(ERROR_WAIT)
    /\ current_gas # None
    /\ attempts >= 1
    /\ is_running

\* C6: the value attached to the purchase transaction is the smaller of
\* TOKEN_AMOUNT and the remaining allocation, both in wei.
C6_ValueIsSmallerOfAmountAndRemaining ==
    transaction # None =>
        Val(transaction).value =
            Min(to_wei(config.TOKEN_AMOUNT),
                Val(presale_info).hard_cap - Val(presale_info).total_raised)

\* C7: the fee parameters merged into a transaction have maxFeePerGas at
\* most MAX_GAS_PRICE, and so has every answer of get_arbitrum_gas_estimate:
\* base_fee + PRIORITY_FEE when that is within the cap, the cap otherwise
\* and when the block cannot be read.
C7_MaxFeeWithinCap ==
    /\ (transaction # None /\ "maxFeePerGas" \in DOMAIN Val(transaction))
          => Val(transaction).maxFeePerGas <= config.MAX_GAS_PRICE
    /\ \A block_ok \in BOOLEAN, base_fee \in BaseFees :
          LET fee == get_arbitrum_gas_estimate(config, block_ok, base_fee).maxFeePerGas
          IN  /\ fee <= config.MAX_GAS_PRICE
              /\ (block_ok /\ base_fee + config.PRIORITY_FEE <= config.MAX_GAS_PRICE)
                    => fee = base_fee + config.PRIORITY_FEE
              /\ ~block_ok => fee = config.MAX_GAS_PRICE

\* C7 witness: a transaction about to be signed whose fee is below the cap,
\* so it came from base_fee + PRIORITY_FEE.
C7_Witness ==
    /\ pc = "sign"
    /\ Val(transaction).maxFeePerGas < config.MAX_GAS_PRICE
    /\ Val(transaction).maxFeePerGas > config.PRIORITY_FEE

\* C8: when the receipt has status 1, execute_buy_transaction returns True
\* and the transaction is recorded.
C8_ConfirmedIsRecorded ==
    (pc = "after_buy" /\ receipt = Some(1)) =>
        /\ success = Some(TRUE)
        /\ last_transaction # None
        /\ Len(transaction_history) > 0

\* A step that changes last_transaction or transaction_history holds a
\* receipt with status 1 and appends the new last_transaction.
RecordChanges ==
    (last_transaction' # last_transaction
       \/ transaction_history' # transaction_history)
        => /\ receipt = Some(1)
           /\ last_transaction' # None
           /\ transaction_history'
                = Append(transaction_history, Val(last_transaction'))

\* C9: last_transaction and transaction_history change only on a receipt
\* with status 1, by appending the new last_transaction; an attempt that
\* got no receipt, or one with another status, returns False.
C9_RecordedOnlyWhenConfirmed ==
    /\ [][RecordChanges]_vars
    /\ []((pc = "after_buy" /\ receipt # Some(1)) => success = Some(FALSE))

\* C9 witness: an attempt whose transaction was mined and reverted has
\* returned False and nothing is recorded.
C9_Witness ==
    /\ pc = "after_buy"
    /\ receipt = Some(0)
    /\ success = Some(FALSE)
    /\ last_transaction = None

\* C10: a run makes at most MAX_RETRIES buy attempts after the first one.
C10_RetriesBounded == attempts <= 1 + config.MAX_RETRIES

\* The startup validation read a presale that is not active, not ended and
\* below its hard cap: run() goes on to the monitoring loop, running.
InactiveStartMonitors ==
    (/\ pc = "validate"
     /\ pc' # pc
     /\ startup_presale_info' # None
     /\ ~Val(startup_presale_info').is_active
     /\ now <= Val(startup_presale_info').presale_end
     /\ Val(startup_presale_info').total_raised < Val(startup_presale_info').hard_cap)
        => /\ pc' = "status_notified"
           /\ is_running'
           /\ run_result' = None

\* C11: when run() is started while the contract reports the presale as
\* not active (and neither ended nor at its hard cap), run() does not
\* return at the startup validation: it sets is_running and goes on to the
\* monitoring loop.
C11_InactiveStartKeepsMonitoring == [][InactiveStartMonitors]_vars

\* Where run() stands before is_running is set.
StartupPcs == { "init", "startup_notified", "check_balance", "validate" }

\* The notifications a failing startup check hands to asyncio.create_task.
StartupFailureTasks == { "error", "balance_warning", "presale_ended" }

\* The startup steps in their order: the startup message, the network
\* check, the balance check, the validation; each check either passes and
\* leads to the next step, or schedules its failure message and returns.
StartupOrder ==
    /\ (pc = "init" /\ pc' # pc)
          => /\ pc' = "startup_notified"
             /\ outbox' = Some(Notification("startup", "run"))
    /\ (pc = "startup_notified" /\ pc' # pc)
          => /\ pc' \in {"check_balance", "returned"}
             /\ pc' = "returned" <=> scheduled' \cap StartupFailureTasks # {}
    /\ (pc = "check_balance" /\ pc' # pc)
          => /\ pc' \in {"validate", "returned"}
             /\ pc' = "returned" <=> scheduled' \cap StartupFailureTasks # {}
    /\ (pc = "validate" /\ pc' # pc)
          => /\ pc' \in {"status_notified", "returned"}
             /\ pc' = "returned" <=> scheduled' \cap StartupFailureTasks # {}
    /\ (pc' = "loop_head" /\ pc \notin LoopPcs) => pc = "status_notified"

\* is_running becomes True only in the step that passed the validation.
RunningOnlyAfterChecks ==
    (is_running' /\ ~is_running)
        => pc = "validate" /\ pc' = "status_notified"

\* A return out of the startup steps is a return of False.
FailedStartup ==
    (pc \in StartupPcs /\ pc' = "returned")
        => /\ run_result' = Some(FALSE)
           /\ ~is_running'
           /\ attempts' = 0

\* C12: run() does the startup message, the network check, the balance
\* check and the validation in this order; is_running is set and the
\* monitoring starts only after the three checks passed; a failed check
\* makes run() return False, is_running never having been True and no buy
\* attempt having been made.
C12_StartupOrder ==
    /\ [](pc \in StartupPcs => ~is_running /\ attempts = 0)
    /\ [][StartupOrder]_vars
    /\ [][RunningOnlyAfterChecks]_vars
    /\ [][FailedStartup]_vars
    /\ []((pc \in {"returned", "exited"} /\ run_result = Some(FALSE))
            => ~is_running /\ attempts = 0 /\ last_transaction = None)

\* C12 witness: the network check passed, the balance was too small, and
\* run() returned False.
C12_Witness ==
    /\ pc = "returned"
    /\ run_result = Some(FALSE)
    /\ "balance_warning" \in scheduled
    /\ ~is_running
    /\ attempts = 0

\* C13: once stop() was called (is_running is False inside the loop), no
\* purchase transaction is built, signed or sent any more.
C13_NoPurchaseAfterStop ==
    pc \in {"optimize", "sign", "send", "wait_receipt"} => is_running

\* C14: when run() returned False out of a startup check and the process
\* ended, the message that check scheduled had been sent: it is not among
\* the tasks cancelled at the exit.
C14_StartupFailureNotified ==
    (pc = "exited" /\ run_result = Some(FALSE))
        => cancelled \cap StartupFailureTasks = {}

\* This iteration's poll was good and its clock reading is before
\* presale_start.
BeforeStart ==
    /\ presale_info # None
    /\ current_time # None
    /\ Val(current_time) < Val(presale_info).presale_start

\* The clock reading before the start: more than 60 seconds ahead, the
\* loop sleeps at once, nothing prepared and no message; otherwise it
\* prepares and sends the start message, whatever the preparation found.
StartChecked ==
    (pc = "check_start" /\ pc' # pc
       /\ Val(current_time') < Val(presale_info).presale_start)
        => LET until_start == Val(presale_info).presale_start - Val(current_time')
           IN  IF until_start <= PREPARE_WINDOW
               THEN /\ pc' = "start_notified"
                    /\ outbox' = Some(Notification("presale_start", "monitor"))
               ELSE /\ pc' = "sleep"
                    /\ sleep_for' = Some(Min(until_start, START_POLL_CAP))
                    /\ outbox' = outbox
                    /\ scheduled' = scheduled

\* After the start message the loop sleeps min(time_until_start, 10), not
\* longer than the time to the start that the iteration measured.
StartSleep ==
    (pc = "start_notified" /\ pc' = "sleep")
        => /\ sleep_for' = Some(Min(time_until_start, START_POLL_CAP))
           /\ Val(sleep_for') <= time_until_start
           /\ Val(sleep_for') > 0
           /\ time_until_start <= PREPARE_WINDOW

GasGate ==
    (pc = "decide" /\ pc' # pc /\ buy_amount' # None /\ Val(buy_amount') > 0)
        => /\ current_gas' # None
           /\ pc' = "execute" <=> Val(current_gas') <= config.MAX_GAS_PRICE
           /\ pc' # "execute" => pc' = "gas_warned"

\* C16: is_gas_acceptable(p) is true exactly when p <= MAX_GAS_PRICE, the
\* boundary included; get_current_gas_price returns the node's price and
\* MAX_GAS_PRICE when the node cannot be asked, a value the gate accepts,
\* so the buy is attempted in such an iteration.
C16_GasGate ==
    /\ [](\A p \in GasPrices \cup { config.MAX_GAS_PRICE - 1,
                                      config.MAX_GAS_PRICE,
                                      config.MAX_GAS_PRICE + 1 } :
             /\ is_gas_acceptable(config, p) <=> p <= config.MAX_GAS_PRICE
             /\ get_current_gas_price(config, TRUE, p) = p
             /\ get_current_gas_price(config, FALSE, p) = config.MAX_GAS_PRICE
             /\ is_gas_acceptable(config, get_current_gas_price(config, FALSE, p)))
    /\ [][GasGate]_vars

\* C16 witness: a buy is attempted on a gas price equal to a cap that the
\* node never answers, so the reading is the fallback.
C16_Witness ==
    /\ pc = "execute"
    /\ Val(current_gas) = config.MAX_GAS_PRICE
    /\ config.MAX_GAS_PRICE \notin GasPrices

\* C17: in the fee parameters merged into a transaction, whether they come
\* from the latest block or from a fallback, maxPriorityFeePerGas is at
\* most maxFeePerGas.
C17_PriorityWithinMaxFee ==
    (transaction # None /\ "maxFeePerGas" \in DOMAIN Val(transaction))
        => Val(transaction).maxPriorityFeePerGas <= Val(transaction).maxFeePerGas

\* C18: the transaction handed to sign_transaction carries one fee scheme:
\* gasPrice alone, or maxFeePerGas with maxPriorityFeePerGas and no
\* gasPrice.
C18_OneFeeScheme ==
    pc = "sign" =>
        LET keys == DOMAIN Val(transaction)
            dynamic == {"maxFeePerGas", "maxPriorityFeePerGas"}
        IN  \/ "gasPrice" \in keys /\ keys \cap dynamic = {}
            \/ "gasPrice" \notin keys /\ dynamic \subseteq keys

\* The keys of the fee parameters.
GasParamKeys == { "gas", "maxFeePerGas", "maxPriorityFeePerGas" }

\* The step after build_buy_transaction is the signing, with the three
\* parameters merged: optimize_gas_for_transaction did not raise.
OptimizeNeverRaises ==
    (pc = "optimize" /\ pc' # pc)
        => /\ pc' = "sign"
           /\ outbox' = outbox
           /\ GasParamKeys \subseteq DOMAIN Val(transaction')
           /\ \/ Val(transaction').gas = config.GAS_LIMIT
              \/ \E e \in EstimatedGas :
                    /\ 5 * Val(transaction').gas <= 6 * e
                    /\ 5 * (Val(transaction').gas + 1) > 6 * e

\* C19: optimize_gas_for_transaction always returns gas, maxFeePerGas and
\* maxPriorityFeePerGas and never raises; with an estimate the gas is the
\* estimate times 1.2 rounded down, not below the estimate; without one it
\* is GAS_LIMIT with MAX_GAS_PRICE and PRIORITY_FEE.
C19_OptimizeGasTotal ==
    /\ [](\A estimate_ok \in BOOLEAN, e \in EstimatedGas,
             block_ok \in BOOLEAN, base_fee \in BaseFees :
             LET p == optimize_gas_for_transaction(config, estimate_ok, e,
                                                   block_ok, base_fee)
             IN  /\ DOMAIN p = GasParamKeys
                 /\ estimate_ok => /\ 5 * p.gas <= 6 * e
                                    /\ 5 * (p.gas + 1) > 6 * e
                                    /\ p.gas >= e
                 /\ ~estimate_ok => /\ p.gas = config.GAS_LIMIT
                                     /\ p.maxFeePerGas = config.MAX_GAS_PRICE
                                     /\ p.maxPriorityFeePerGas = config.PRIORITY_FEE)
    /\ [][OptimizeNeverRaises]_vars

\* C19 witness: a transaction about to be signed whose gas is an estimate
\* times 1.2 that had to be rounded down.
C19_Witness ==
    /\ pc = "sign"
    /\ \E e \in EstimatedGas :
          /\ e % 5 # 0
          /\ Val(transaction).gas = e + (e \div 5)

\* The sleeps of the loop, branch by branch.
Backoff ==
    /\ (pc = "loop_head" /\ pc' = "sleep")
          => sleep_for' = Some(config.MONITOR_INTERVAL)
    /\ (pc = "after_buy" /\ success = Some(FALSE) /\ pc' # pc)
          => pc' = "sleep" /\ sleep_for' = Some(config.MONITOR_INTERVAL)
    /\ (pc = "gas_warned" /\ pc' \notin {pc, "error_notified"})
          => pc' = "sleep_extra" /\ sleep_for' = Some(5)
    /\ (pc = "decide" /\ pc' # pc /\ buy_amount' = Some(0))
          => pc' = "sleep_extra" /\ sleep_for' = Some(10)
    /\ (pc = "sleep_extra" /\ pc' # pc)
          => pc' = "sleep" /\ sleep_for' = Some(config.MONITOR_INTERVAL)
    /\ (pc \in {"check_start", "start_notified"} /\ pc' = "sleep")
          => sleep_for' = Some(Min(Val(presale_info).presale_start
                                     - Val(current_time'), 10))
    /\ (pc = "error_notified" /\ pc' # pc)
          => pc' = "sleep" /\ sleep_for' = Some(10)

\* The loop head is reached again only out of a sleep, a positive one when
\* MONITOR_INTERVAL is positive.
PollAfterSleep ==
    (pc' = "loop_head" /\ pc \in LoopPcs /\ pc # "loop_head")
        => /\ pc = "sleep"
           /\ sleep_for # None
           /\ config.MONITOR_INTERVAL > 0 => Val(sleep_for) > 0

\* C20: an iteration that does not end the loop sleeps before the next
\* poll: MONITOR_INTERVAL after a failed validation or a failed buy, 5 and
\* then MONITOR_INTERVAL after a gas price above the cap, 10 and then
\* MONITOR_INTERVAL after a buy amount of 0, min(time_until_start, 10)
\* before the start, 10 after an exception; with MONITOR_INTERVAL > 0 every
\* return to the poll comes out of a sleep of positive length.
C20_Backoff ==
    /\ [][Backoff]_vars
    /\ [][PollAfterSleep]_vars
    /\ [](pc \in {"sleep", "sleep_extra"} => sleep_for # None)

\* C20 witness: the last sleep of an iteration whose gas price was above
\* the cap, MONITOR_INTERVAL after the 5 seconds.
C20_Witness ==
    /\ pc = "sleep"
    /\ sleep_for = Some(config.MONITOR_INTERVAL)
    /\ current_gas # None
    /\ Val(current_gas) > config.MAX_GAS_PRICE

====
